---- MODULE Spec2Model ----
(***************************************************************************)
(* A model of the nuxt-api runtime: the Token Store (useTokenStorage), the *)
(* Error Classifier (useErrorBag), the Request Preparer                    *)
(* (parseRequestOptions), the HTTP client (useHttp / useApiFetch) and the  *)
(* auth state machine (useAuth, getAuthUser, the boot plugin).             *)
(*                                                                         *)
(* JavaScript values are tagged records: Undefined, Null, Str(s), Obj(f)   *)
(* and Arr(q).  A dot-path key is a sequence of lexemes, a name or the     *)
(* separator ".", so that String.split('.') is computed and not assumed.   *)
(* A redirect path that the configuration disables (false) is the empty    *)
(* string: the code only ever tests such a value for truthiness.           *)
(***************************************************************************)
EXTENDS Integers, Sequences, FiniteSets, TLC

(***************************************************************************)
(* JavaScript values                                                       *)
(***************************************************************************)
Undefined == [t |-> "undefined"]
Null == [t |-> "null"]
Str(s) == [t |-> "string", s |-> s]
Obj(f) == [t |-> "object", o |-> f]
Arr(q) == [t |-> "array", a |-> q]
Num(n) == [t |-> "number", n |-> n]
Bool(b) == [t |-> "boolean", b |-> b]
EmptyObj == Obj(<<>>)

\* ToBoolean of a value: undefined, null, '', 0 and false are falsy.
Truthy(v) ==
  CASE v.t = "undefined" -> FALSE
    [] v.t = "null" -> FALSE
    [] v.t = "string" -> v.s # ""
    [] v.t = "number" -> v.n # 0
    [] v.t = "boolean" -> v.b
    [] OTHER -> TRUE

\* a ?? b
Nullish(v) == v.t \in {"undefined", "null"}

\* v[key] for a value that is not null or undefined.
Member(v, key) ==
  IF v.t = "object" /\ key \in DOMAIN v.o THEN v.o[key] ELSE Undefined

(***************************************************************************)
(* helpers/extractNestedValue                                              *)
(***************************************************************************)
NullKey == [null |-> TRUE, chars |-> <<>>]
Key(chars) == [null |-> FALSE, chars |-> chars]

\* String.split('.') on a sequence of lexemes: the names between the dots,
\* '' where two dots (or a dot and an end) are adjacent.
RECURSIVE SplitDots(_)
SplitDots(chars) ==
  IF chars = <<>> THEN <<"">>
  ELSE IF Head(chars) = "." THEN <<"">> \o SplitDots(Tail(chars))
  ELSE LET rest == SplitDots(Tail(chars)) IN <<Head(chars)>> \o Tail(rest)

\* Array.reduce((accumulator, key) => accumulator && accumulator[key], response)
RECURSIVE ReducePath(_, _)
ReducePath(accumulator, keys) ==
  IF keys = <<>> THEN accumulator
  ELSE ReducePath(IF Truthy(accumulator) THEN Member(accumulator, Head(keys))
                  ELSE accumulator,
                  Tail(keys))

extractNestedValue(response, wrapperKey) ==
  IF wrapperKey.null \/ wrapperKey.chars = <<>> THEN response
  ELSE ReducePath(response, SplitDots(wrapperKey.chars))

(***************************************************************************)
(* Module configuration (useApiOptions) and the paths of the application   *)
(***************************************************************************)
LoginPath == "/login"
DashboardPath == "/dashboard"
ProfilePath == "/profile"
Disabled == ""

ErrorMessages ==
  [default |-> "Whoops - something went wrong",
   csrf |-> "CSRF token mismatch",
   unauthenticated |-> "Unauthenticated"]

Endpoints ==
  [csrf |-> "/sanctum/csrf-cookie", login |-> "/api/login",
   logout |-> "/api/logout", user |-> "/api/user"]

CsrfHeaderName == "X-XSRF-TOKEN"

TokenKeys == {Key(<<"token">>), Key(<<"data", ".", "token">>)}
UserKeys == {NullKey, Key(<<"data">>)}

\* The configurations explored.  In cookie mode the pipeline never reads the
\* token options, so they are held at the defaults there.
Configs ==
  {o \in [authMode : {"cookie", "token"},
          userResponseKey : UserKeys,
          token : [storageType : {"cookie", "localStorage"}, responseKey : TokenKeys],
          redirect : [intendedEnabled : BOOLEAN,
                      login : {LoginPath},
                      postLogin : {Disabled, DashboardPath},
                      postLogout : {Disabled, LoginPath}],
          errorMessages : {ErrorMessages},
          endpoints : {Endpoints}] :
     o.authMode = "cookie" =>
       o.token = [storageType |-> "cookie", responseKey |-> Key(<<"token">>)]}

Routes ==
  {[path |-> LoginPath, redirect |-> ""],
   [path |-> LoginPath, redirect |-> ProfilePath],
   [path |-> LoginPath, redirect |-> LoginPath],
   [path |-> DashboardPath, redirect |-> ""],
   [path |-> ProfilePath, redirect |-> ""]}

Clients == {"auth", "http"}

VARIABLES
  options,       \* useRuntimeConfig().public.nuxtApi, read-only after boot
  isServer,      \* import.meta.server
  user,          \* useState(userStateKey): the shared user slot
  tokenStorage,  \* the token cookie, window.localStorage[key], useState(storageKey)
  csrfCookie,    \* the cookie named csrf.cookieName
  route,         \* useRoute(): path and query.redirect
  processing,    \* useProcessing().processing of each client
  errorBag,      \* useErrorBag() of each client: message and errors
  auth,          \* the invocation of useAuth (or of the plugin) in progress
  overlap,       \* an invocation of useAuth made while auth is under way
  calls,         \* the verb calls of the stand-alone client
  classified,    \* the last handle() a consumer made on the client's errorBag
  returned       \* the last value a guard or a helper returned to its caller

vars ==
  <<options, isServer, user, tokenStorage, csrfCookie, route, processing,
    errorBag, auth, overlap, calls, classified, returned>>

(***************************************************************************)
(* composables/useTokenStorage                                             *)
(***************************************************************************)
\* Variant: the cookie is written only when there is none yet.
cookieProviderSetOnce(store, token) ==
  IF store.cookie = Undefined /\ ~Nullish(token)
  THEN [store EXCEPT !.cookie = token] ELSE store

\* useCookie(name).value = token: a nullish value deletes the cookie.
cookieProviderSet(store, token) ==
  [store EXCEPT !.cookie = IF Nullish(token) THEN Undefined ELSE token]

cookieProviderGet(store) == store.cookie

localStorageProviderSet(store, token) ==
  IF isServer THEN store
  ELSE IF ~Truthy(token) THEN [store EXCEPT !.local = Null]
  ELSE [store EXCEPT !.local = token]

localStorageProviderGet(store) ==
  IF isServer THEN Undefined
  ELSE IF Nullish(store.local) THEN Undefined ELSE store.local

providerGet(store) ==
  IF options.token.storageType = "localStorage"
  THEN localStorageProviderGet(store) ELSE cookieProviderGet(store)

providerSet(store, token) ==
  IF options.token.storageType = "localStorage"
  THEN localStorageProviderSet(store, token) ELSE cookieProviderSet(store, token)

\* useTokenStorage().get(): provider.get(key) ?? tokenState.value
TokenGet(store) ==
  IF Nullish(providerGet(store)) THEN store.state ELSE providerGet(store)

\* Variant: set() ignores a missing token instead of removing the stored one.
TokenSetKeepsOld(store, token) ==
  IF Truthy(token) THEN [providerSet(store, token) EXCEPT !.state = token]
  ELSE store

\* useTokenStorage().set(token)
TokenSet(store, token) == [providerSet(store, token) EXCEPT !.state = token]

EmptyStorage == [cookie |-> Undefined, local |-> Null, state |-> Undefined]

(***************************************************************************)
(* composables/useErrorBag                                                 *)
(***************************************************************************)
\* An Error: status 0 stands for an error that carries no response.
Error(status, message, data) ==
  [t |-> "error", status |-> status, message |-> message, data |-> data]

\* The TypeError of destructuring undefined or null.
TypeError == Error(0, "TypeError: cannot destructure", Undefined)

\* The FetchContext handed to the onResponseError hook: it has a response
\* and no message of its own.
ContextOf(error) == [error EXCEPT !.message = ""]

EmptyBag == [message |-> Null, errors |-> Null]

Outcome(bag, usr, threw) == [bag |-> bag, user |-> usr, threw |-> threw]

general(bag, error, usr) ==
  Outcome([bag EXCEPT !.message =
             IF error.message # "" THEN Str(error.message)
             ELSE Str(options.errorMessages.default)],
          usr, FALSE)

\* Variant: the 422 branch records the message and drops the field errors.
unprocessableMessageOnly(bag, error, usr) ==
  IF Nullish(error.data) THEN Outcome(bag, usr, TRUE)
  ELSE LET m == Member(error.data, "message")
       IN Outcome([bag EXCEPT !.message =
                     IF Truthy(m) THEN m ELSE Str(options.errorMessages.default)],
                  usr, FALSE)

unprocessable(bag, error, usr) ==
  IF Nullish(error.data) THEN Outcome(bag, usr, TRUE)
  ELSE LET m == Member(error.data, "message")
           e == Member(error.data, "errors")
       IN Outcome([message |-> IF Truthy(m) THEN m
                               ELSE Str(options.errorMessages.default),
                   errors |-> IF Truthy(e) THEN e ELSE Null],
                  usr, FALSE)

\* Variant: the 419 branch clears the user as the 401 branch does.
csrfClearsUser(bag, error, usr) ==
  Outcome([bag EXCEPT !.message = Str(options.errorMessages.csrf)], Null, FALSE)

csrf(bag, error, usr) ==
  Outcome([bag EXCEPT !.message = Str(options.errorMessages.csrf)], usr, FALSE)

\* Variant: the 401 branch sets the message and leaves the user alone.
unauthenticatedKeepsUser(bag, usr) ==
  Outcome([bag EXCEPT !.message = Str(options.errorMessages.unauthenticated)],
          usr, FALSE)

unauthenticated(bag, usr) ==
  Outcome([bag EXCEPT !.message = Str(options.errorMessages.unauthenticated)],
          Null, FALSE)

byStatusCode(bag, error, usr) ==
  CASE error.status = 422 -> unprocessable(bag, error, usr)
    [] error.status = 419 -> csrf(bag, error, usr)
    [] error.status = 401 -> unauthenticated(bag, usr)
    [] OTHER -> general(bag, error, usr)

\* handle(error): the bag and the shared user afterwards, and whether it threw.
handle(bag, error, usr) ==
  IF error.t = "undefined" THEN Outcome(bag, usr, FALSE)
  ELSE IF error.status # 0 THEN byStatusCode(bag, error, usr)
  ELSE general(bag, error, usr)

\* Variant: reset() clears the message and keeps the field errors.
resetMessageOnly(bag) == [bag EXCEPT !.message = Null]

reset(bag) == EmptyBag

(***************************************************************************)
(* services/parseRequestOptions: the onRequest step                        *)
(***************************************************************************)
RequestOrigin == "http://localhost:3000"
ClientCookieHeader == "laravel_session=s1"
CsrfValues == {Str("csrf1")}

BaseHeaders == "Accept" :> "application/json"

attachServerHeaders(headers) ==
  ("cookie" :> ClientCookieHeader) @@ ("Referer" :> RequestOrigin)
    @@ ("Origin" :> RequestOrigin) @@ headers

\* Variant: a header is attached in any case, blank without a cookie.
attachCsrfHeaderBlank(headers, cookie) ==
  (CsrfHeaderName :> IF Truthy(cookie) THEN cookie.s ELSE "") @@ headers

\* The header is attached iff the cookie read is truthy.
attachCsrfHeader(headers, cookie) ==
  IF Truthy(cookie) THEN (CsrfHeaderName :> cookie.s) @@ headers ELSE headers

\* Variant: the stored token is never attached.
attachTokenNever(headers, store) == headers

attachToken(headers, store) ==
  LET token == TokenGet(store)
  IN IF Truthy(token) THEN ("Authorization" :> <<"Bearer", token.s>>) @@ headers
     ELSE headers

Mutating == {"post", "delete", "put", "patch"}
Verbs == {"get", "post", "put", "patch", "delete"}

NoRequest == [stage |-> "none"]

\* prepareContext up to its first suspension: the request is either ready for
\* the transport (stage "sent") or waits for the CSRF priming GET (stage "csrf").
\* primes counts the GETs to the CSRF endpoint made for the request.
prepareContext(method, endpoint, store, cookie) ==
  LET withServer == IF options.authMode = "cookie" /\ isServer
                    THEN attachServerHeaders(BaseHeaders) ELSE BaseHeaders
      req(stage, headers) ==
        [stage |-> stage, method |-> method, endpoint |-> endpoint,
         headers |-> headers, primes |-> IF stage = "csrf" THEN 1 ELSE 0]
  IN IF options.authMode = "cookie"
     THEN IF method \in Mutating
          THEN IF Truthy(cookie)
               THEN req("sent", attachCsrfHeader(withServer, cookie))
               ELSE req("csrf", withServer)
          ELSE req("sent", withServer)
     ELSE req("sent", attachToken(BaseHeaders, store))

\* The spellings of the methods: String.toLowerCase and String.toUpperCase.
Spellings ==
  {<<"get", "GET">>, <<"post", "POST">>, <<"put", "PUT">>,
   <<"patch", "PATCH">>, <<"delete", "DELETE">>}
toLowerCase(m) ==
  IF \E sp \in Spellings : sp[2] = m
  THEN (CHOOSE sp \in Spellings : sp[2] = m)[1] ELSE m
toUpperCase(m) ==
  IF \E sp \in Spellings : sp[1] = m
  THEN (CHOOSE sp \in Spellings : sp[1] = m)[2] ELSE m

\* A FormData body: its fields in order, each a pair of name and value.
FormData(fields) == [t |-> "form", f |-> fields]

\* Variant: the _method field carries the logical method as it is, lowercased.
prepareBodyLowercase(method, body) ==
  IF body.t = "form"
  THEN [sent |-> "POST",
        body |-> FormData(Append(body.f, <<"_method", toLowerCase(method)>>))]
  ELSE [sent |-> method, body |-> body]

\* prepareContext on the body: what the transport is given as method (sent)
\* and as body, for options.method = method.
prepareBody(method, body) ==
  IF body.t = "form"
  THEN [sent |-> "POST",
        body |-> FormData(Append(body.f, <<"_method", toUpperCase(toLowerCase(method))>>))]
  ELSE [sent |-> method, body |-> body]

\* Variant: without a cookie after the priming GET the request is given up.
afterCsrfCookieGivesUp(req, cookie) ==
  IF Truthy(cookie)
  THEN [req EXCEPT !.stage = "sent", !.headers = attachCsrfHeader(req.headers, cookie)]
  ELSE [req EXCEPT !.stage = "none"]

\* Variant: the cookie is not read again after the priming GET.
afterCsrfCookieStale(req, cookie) == [req EXCEPT !.stage = "sent"]

\* attachCsrfHeader after fetchCsrfCookie has settled: the cookie is re-read.
afterCsrfCookie(req, cookie) ==
  [req EXCEPT !.stage = "sent", !.headers = attachCsrfHeader(req.headers, cookie)]

\* fetchOptions.retryAttempts, handed to the transport as options.retry.
RetryAttempts == 1

\* options.retry of a context: the transport retries with retry - 1.
Retries(req) == IF "retry" \in DOMAIN req THEN req.retry ELSE RetryAttempts

\* onRequest run by the transport's retry on the context the previous run
\* prepared: options.method, options.body and options.headers are those the
\* previous run left.
prepareRetry(req, store, cookie) ==
  LET again == prepareContext(toLowerCase(req.sent), req.endpoint, store, cookie)
  IN [retry |-> Retries(req) - 1]
       @@ prepareBody(req.sent, req.body)
       @@ [again EXCEPT !.headers = @ @@ req.headers,
                        !.primes = @ + req.primes]

(***************************************************************************)
(* composables/useApiFetch and composables/useHttp: how a call settles     *)
(***************************************************************************)
\* The transport rejects: onResponseError classifies the context in a bag of
\* its own when there is a response; what it throws replaces the error.
apiFetchFailure(error, usr) ==
  LET hook == IF error.status # 0 THEN handle(EmptyBag, ContextOf(error), usr)
              ELSE Outcome(EmptyBag, usr, FALSE)
  IN [raised |-> IF hook.threw THEN TypeError ELSE error, user |-> hook.user]

\* Variant: any failure of a call ends the session.
callFailureEndsSession(bag, error, usr) ==
  LET f == apiFetchFailure(error, usr)
      h == handle(bag, f.raised, f.user)
  IN [raised |-> IF h.threw THEN TypeError ELSE f.raised,
      bag |-> h.bag, user |-> Null]

\* The catch block of call(): the client's bag classifies what was raised.
callFailure(bag, error, usr) ==
  LET f == apiFetchFailure(error, usr)
      h == handle(bag, f.raised, f.user)
  IN [raised |-> IF h.threw THEN TypeError ELSE f.raised,
      bag |-> h.bag, user |-> h.user]

(***************************************************************************)
(* What the backend may answer                                             *)
(***************************************************************************)
MaxInFlight == 2

UserRecord == Obj("id" :> Str("1"))
LoginBodies ==
  {EmptyObj, Obj("token" :> Str("abc")), Obj("token" :> Str("xyz")),
   Obj("data" :> Obj("token" :> Str("abc")))}
UserBodies == {UserRecord, Obj("data" :> UserRecord)}

ValidationPayload ==
  Obj(("message" :> Str("bad")) @@ ("errors" :> Obj("email" :> Arr(<<"required">>))))

Errors ==
  {Error(401, "Unauthorized", EmptyObj),
   Error(419, "Page Expired", EmptyObj),
   Error(422, "Unprocessable Content", ValidationPayload),
   Error(422, "Unprocessable Content", Undefined),
   Error(500, "Server Error", Undefined),
   Error(0, "", Undefined)}

ItemsEndpoint == "/api/items"

(***************************************************************************)
(* composables/useAuth, services/getAuthUser, plugin                       *)
(***************************************************************************)
\* Variant: the computed compares with undefined instead of null.
isLoggedInNotUndefined == user # Undefined

isLoggedIn == user # Null

\* What one invocation has done so far: its navigateTo targets, whether the
\* callback ran (and with which user), the error it rejected with, and how
\* many POSTs, user fetches and token writes it issued.  resp is the body of
\* the login response, the callback's first argument.
NoOutput ==
  [navs |-> <<>>, called |-> FALSE, cbUser |-> Undefined, err |-> Undefined,
   posts |-> 0, fetches |-> 0, sets |-> 0]

Invocation(op, pc, cb, req, resp, out) ==
  [op |-> op, pc |-> pc, cb |-> cb, req |-> req, resp |-> resp, out |-> out]

Booted == ~(auth.op = "plugin" /\ auth.pc # "done")
AuthFree == auth.pc = "done"
InFlight ==
  (IF auth.pc = "done" THEN 0 ELSE 1)
    + Cardinality({i \in DOMAIN calls : calls[i].pc = "flight"})

\* navigateTo(path): the router lands on the path, without query.
navigateTo(path) == [path |-> path, redirect |-> ""]

\* options.userResponseKey || null
userResponseKey ==
  IF options.userResponseKey.null \/ options.userResponseKey.chars = <<>>
  THEN NullKey ELSE options.userResponseKey

\* Variant: the duplicate-login redirect does not look at the current path.
alreadyLoggedInAlways(rt) ==
  IF options.redirect.postLogin = Disabled THEN <<>>
  ELSE <<options.redirect.postLogin>>

\* login(), already logged in: the navigateTo calls, in order.
alreadyLoggedInTarget(rt) ==
  IF options.redirect.postLogin = Disabled \/ options.redirect.postLogin = rt.path
  THEN <<>> ELSE <<options.redirect.postLogin>>

\* Variant: the intended redirect is followed even to the current path.
postLoginTargetAnyIntended(rt) ==
  IF options.redirect.intendedEnabled /\ rt.redirect # ""
  THEN <<rt.redirect>>
  ELSE IF options.redirect.postLogin = Disabled \/ rt.path = options.redirect.postLogin
  THEN <<>> ELSE <<options.redirect.postLogin>>

\* login(), after refreshUser and without callback: the navigateTo calls.
postLoginTarget(rt) ==
  IF options.redirect.intendedEnabled /\ rt.redirect # "" /\ rt.redirect # rt.path
  THEN <<rt.redirect>>
  ELSE IF options.redirect.postLogin = Disabled \/ rt.path = options.redirect.postLogin
  THEN <<>> ELSE <<options.redirect.postLogin>>

\* Variant: the post-logout redirect does not look at the current path.
postLogoutAlways(rt) ==
  IF options.redirect.postLogout = Disabled THEN <<>>
  ELSE <<options.redirect.postLogout>>

\* logout(), after the POST and without callback: the navigateTo calls.
postLogoutTarget(rt) ==
  IF options.redirect.postLogout = Disabled \/ rt.path = options.redirect.postLogout
  THEN <<>> ELSE <<options.redirect.postLogout>>

\* The invocation ends after the navigateTo calls in targets: the router
\* lands on the last of them.
Finish(inv, targets) ==
  /\ auth' = [inv EXCEPT !.pc = "done", !.req = NoRequest, !.out.navs = targets]
  /\ route' = IF targets = <<>> THEN route
              ELSE navigateTo(targets[Len(targets)])

\* The invocation ends by handing over to the callback.
FinishByCallback(inv, usr) ==
  /\ auth' = [inv EXCEPT !.pc = "done", !.req = NoRequest,
                         !.out.called = TRUE, !.out.cbUser = usr]
  /\ route' = route

\* Variant: the callback is invoked and the default redirect still follows.
loginTailCallbackThenRedirect(usr) ==
  Finish([auth EXCEPT !.out.called = auth.cb,
                      !.out.cbUser = IF auth.cb THEN usr ELSE @],
         postLoginTarget(route))

\* login() after `await refreshUser()`.
loginTail(usr) ==
  IF auth.cb THEN FinishByCallback(auth, usr)
  ELSE Finish(auth, postLoginTarget(route))

LoginStart(cb) ==
  /\ Booted /\ AuthFree
  /\ IF isLoggedIn
     THEN /\ Finish(Invocation("login", "done", cb, NoRequest, Undefined, NoOutput),
                    alreadyLoggedInTarget(route))
          /\ UNCHANGED processing
     ELSE /\ InFlight < MaxInFlight
          /\ processing' = [processing EXCEPT !["auth"] = TRUE]
          /\ auth' = Invocation("login", "post", cb,
                       prepareContext("post", options.endpoints.login,
                                      tokenStorage, csrfCookie),
                       Undefined, [NoOutput EXCEPT !.posts = 1])
          /\ UNCHANGED route
  /\ UNCHANGED <<overlap, returned, classified, options, isServer, user, tokenStorage, csrfCookie, errorBag, calls>>

\* The CSRF priming GET of the invocation's request settles; cookie is what
\* the backend set (Undefined when it set none or the GET failed).
AuthCsrfSettled(cookie) ==
  /\ auth.pc # "done" /\ auth.req.stage = "csrf"
  /\ csrfCookie' = IF Truthy(cookie) THEN cookie ELSE csrfCookie
  /\ auth' = [auth EXCEPT !.req = afterCsrfCookie(auth.req, csrfCookie')]
  /\ UNCHANGED <<overlap, returned, classified, options, isServer, user, tokenStorage, route, processing,
                 errorBag, calls>>

\* Variant: the user-fetch request is prepared before the token is persisted.
LoginPostOkPrepareFirst(body) ==
  /\ auth.op = "login" /\ auth.pc = "post" /\ auth.req.stage = "sent"
  /\ errorBag' = [errorBag EXCEPT !["auth"] = reset(@)]
  /\ tokenStorage' =
       IF options.authMode = "token"
       THEN TokenSet(tokenStorage,
                     extractNestedValue(body, options.token.responseKey))
       ELSE tokenStorage
  /\ auth' = [auth EXCEPT
       !.pc = "user", !.resp = body,
       !.req = prepareContext("get", options.endpoints.user,
                              tokenStorage, csrfCookie),
       !.out.sets = IF options.authMode = "token" THEN @ + 1 ELSE @,
       !.out.fetches = @ + 1]
  /\ UNCHANGED <<overlap, returned, classified, options, isServer, user, csrfCookie,
                 route, processing, calls>>

\* Variant: the response of the login POST is adopted as the user.
LoginPostOkAdoptsUser(body) ==
  /\ auth.op = "login" /\ auth.pc = "post" /\ auth.req.stage = "sent"
  /\ errorBag' = [errorBag EXCEPT !["auth"] = reset(@)]
  /\ tokenStorage' =
       IF options.authMode = "token"
       THEN TokenSet(tokenStorage,
                     extractNestedValue(body, options.token.responseKey))
       ELSE tokenStorage
  /\ user' = body
  /\ auth' = [auth EXCEPT
       !.pc = "user", !.resp = body,
       !.req = prepareContext("get", options.endpoints.user,
                              tokenStorage', csrfCookie),
       !.out.sets = IF options.authMode = "token" THEN @ + 1 ELSE @,
       !.out.fetches = @ + 1]
  /\ UNCHANGED <<overlap, returned, classified, options, isServer, csrfCookie, route,
                 processing, calls>>

LoginPostOk(body) ==
  /\ auth.op = "login" /\ auth.pc = "post" /\ auth.req.stage = "sent"
  /\ errorBag' = [errorBag EXCEPT !["auth"] = reset(@)]
  /\ tokenStorage' =
       IF options.authMode = "token"
       THEN TokenSet(tokenStorage,
                     extractNestedValue(body, options.token.responseKey))
       ELSE tokenStorage
  /\ auth' = [auth EXCEPT
       !.pc = "user", !.resp = body,
       !.req = prepareContext("get", options.endpoints.user,
                              tokenStorage', csrfCookie),
       !.out.sets = IF options.authMode = "token" THEN @ + 1 ELSE @,
       !.out.fetches = @ + 1]
  /\ UNCHANGED <<overlap, returned, classified, options, isServer, user, csrfCookie, route, processing, calls>>

\* post() rejects and login()/logout() rejects with it.
AuthPostFail(error) ==
  /\ auth.op \in {"login", "logout"} /\ auth.pc = "post" /\ auth.req.stage = "sent"
  /\ LET f == callFailure(errorBag["auth"], error, user)
     IN /\ processing' = [processing EXCEPT !["auth"] = FALSE]
        /\ errorBag' = [errorBag EXCEPT !["auth"] = f.bag]
        /\ user' = f.user
        /\ auth' = [auth EXCEPT !.pc = "done", !.req = NoRequest,
                                !.out.err = f.raised]
  /\ UNCHANGED <<overlap, returned, classified, options, isServer, tokenStorage, csrfCookie, route, calls>>

\* getAuthUser() resolves.
UserFetchOk(body) ==
  /\ auth.pc = "user" /\ auth.req.stage = "sent"
  /\ user' = extractNestedValue(body, userResponseKey)
  /\ IF auth.op = "login" THEN loginTail(user') ELSE Finish(auth, <<>>)
  /\ UNCHANGED <<overlap, returned, classified, options, isServer, tokenStorage, csrfCookie, processing,
                 errorBag, calls>>

\* Variant: the catch block of refreshUser only logs, as the plugin's does.
UserFetchFailOnlyLogs(error) ==
  /\ auth.pc = "user" /\ auth.req.stage = "sent"
  /\ user' = apiFetchFailure(error, user).user
  /\ IF auth.op = "login" THEN loginTail(user') ELSE Finish(auth, <<>>)
  /\ UNCHANGED <<overlap, returned, classified, options, isServer, tokenStorage, csrfCookie,
                 processing, errorBag, calls>>

\* getAuthUser() rejects: refreshUser sets null, the plugin only logs.
UserFetchFail(error) ==
  /\ auth.pc = "user" /\ auth.req.stage = "sent"
  /\ user' = IF auth.op = "plugin" THEN apiFetchFailure(error, user).user ELSE Null
  /\ IF auth.op = "login" THEN loginTail(user') ELSE Finish(auth, <<>>)
  /\ UNCHANGED <<overlap, returned, classified, options, isServer, tokenStorage, csrfCookie, processing,
                 errorBag, calls>>

RefreshStart ==
  /\ Booted /\ AuthFree /\ InFlight < MaxInFlight
  /\ auth' = Invocation("refreshUser", "user", FALSE,
               prepareContext("get", options.endpoints.user, tokenStorage,
                              csrfCookie),
               Undefined, [NoOutput EXCEPT !.fetches = 1])
  /\ UNCHANGED <<overlap, returned, classified, options, isServer, user, tokenStorage, csrfCookie, route,
                 processing, errorBag, calls>>

LogoutStart(cb) ==
  /\ Booted /\ AuthFree
  /\ IF ~isLoggedIn
     THEN /\ Finish(Invocation("logout", "done", cb, NoRequest, Undefined, NoOutput), <<>>)
          /\ UNCHANGED processing
     ELSE /\ InFlight < MaxInFlight
          /\ processing' = [processing EXCEPT !["auth"] = TRUE]
          /\ auth' = Invocation("logout", "post", cb,
                       prepareContext("post", options.endpoints.logout,
                                      tokenStorage, csrfCookie),
                       Undefined, [NoOutput EXCEPT !.posts = 1])
          /\ UNCHANGED route
  /\ UNCHANGED <<overlap, returned, classified, options, isServer, user, tokenStorage, csrfCookie, errorBag, calls>>

LogoutPostOk ==
  /\ auth.op = "logout" /\ auth.pc = "post" /\ auth.req.stage = "sent"
  /\ errorBag' = [errorBag EXCEPT !["auth"] = reset(@)]
  /\ user' = Null
  /\ IF auth.cb THEN FinishByCallback(auth, user')
     ELSE Finish(auth, postLogoutTarget(route))
  /\ UNCHANGED <<overlap, returned, classified, options, isServer, tokenStorage, csrfCookie, processing, calls>>

(***************************************************************************)
(* composables/useAuth: refreshUser() and login() invoked while another    *)
(* invocation is awaiting its response                                     *)
(***************************************************************************)
NoInvocation == Invocation("none", "done", FALSE, NoRequest, Undefined, NoOutput)

OverlapFinish(inv, targets) ==
  /\ overlap' = [inv EXCEPT !.pc = "done", !.req = NoRequest, !.out.navs = targets]
  /\ route' = IF targets = <<>> THEN route
              ELSE navigateTo(targets[Len(targets)])

\* login() after `await refreshUser()`; everything else ends there.
OverlapTail(usr) ==
  IF overlap.op = "login"
  THEN IF overlap.cb
       THEN /\ overlap' = [overlap EXCEPT !.pc = "done", !.req = NoRequest,
                                          !.out.called = TRUE, !.out.cbUser = usr]
            /\ route' = route
       ELSE OverlapFinish(overlap, postLoginTarget(route))
  ELSE OverlapFinish(overlap, <<>>)

OverlapRefreshStart ==
  /\ Booted /\ ~AuthFree /\ overlap.pc = "done"
  /\ overlap' = Invocation("refreshUser", "user", FALSE,
                  prepareContext("get", options.endpoints.user, tokenStorage,
                                 csrfCookie),
                  Undefined, [NoOutput EXCEPT !.fetches = 1])
  /\ UNCHANGED <<auth, returned, classified, options, isServer, user, tokenStorage,
                 csrfCookie, route, processing, errorBag, calls>>

OverlapLoginStart(cb) ==
  /\ Booted /\ ~AuthFree /\ overlap.pc = "done"
  /\ IF isLoggedIn
     THEN /\ OverlapFinish(Invocation("login", "done", cb, NoRequest, Undefined,
                                      NoOutput),
                           alreadyLoggedInTarget(route))
          /\ UNCHANGED processing
     ELSE /\ processing' = [processing EXCEPT !["auth"] = TRUE]
          /\ overlap' = Invocation("login", "post", cb,
                          prepareContext("post", options.endpoints.login,
                                         tokenStorage, csrfCookie),
                          Undefined, [NoOutput EXCEPT !.posts = 1])
          /\ UNCHANGED route
  /\ UNCHANGED <<auth, returned, classified, options, isServer, user, tokenStorage,
                 csrfCookie, errorBag, calls>>

OverlapCsrfSettled(cookie) ==
  /\ overlap.pc # "done" /\ overlap.req.stage = "csrf"
  /\ csrfCookie' = IF Truthy(cookie) THEN cookie ELSE csrfCookie
  /\ overlap' = [overlap EXCEPT !.req = afterCsrfCookie(overlap.req, csrfCookie')]
  /\ UNCHANGED <<auth, returned, classified, options, isServer, user, tokenStorage,
                 route, processing, errorBag, calls>>

OverlapLoginPostOk(body) ==
  /\ overlap.op = "login" /\ overlap.pc = "post" /\ overlap.req.stage = "sent"
  /\ errorBag' = [errorBag EXCEPT !["auth"] = reset(@)]
  /\ tokenStorage' =
       IF options.authMode = "token"
       THEN TokenSet(tokenStorage,
                     extractNestedValue(body, options.token.responseKey))
       ELSE tokenStorage
  /\ overlap' = [overlap EXCEPT
       !.pc = "user", !.resp = body,
       !.req = prepareContext("get", options.endpoints.user,
                              tokenStorage', csrfCookie),
       !.out.sets = IF options.authMode = "token" THEN @ + 1 ELSE @,
       !.out.fetches = @ + 1]
  /\ UNCHANGED <<auth, returned, classified, options, isServer, user, csrfCookie,
                 route, processing, calls>>

OverlapPostFail(error) ==
  /\ overlap.op = "login" /\ overlap.pc = "post" /\ overlap.req.stage = "sent"
  /\ LET f == callFailure(errorBag["auth"], error, user)
     IN /\ processing' = [processing EXCEPT !["auth"] = FALSE]
        /\ errorBag' = [errorBag EXCEPT !["auth"] = f.bag]
        /\ user' = f.user
        /\ overlap' = [overlap EXCEPT !.pc = "done", !.req = NoRequest,
                                      !.out.err = f.raised]
  /\ UNCHANGED <<auth, returned, classified, options, isServer, tokenStorage,
                 csrfCookie, route, calls>>

OverlapUserFetchOk(body) ==
  /\ overlap.pc = "user" /\ overlap.req.stage = "sent"
  /\ user' = extractNestedValue(body, userResponseKey)
  /\ OverlapTail(user')
  /\ UNCHANGED <<auth, returned, classified, options, isServer, tokenStorage,
                 csrfCookie, processing, errorBag, calls>>

OverlapUserFetchFail(error) ==
  /\ overlap.pc = "user" /\ overlap.req.stage = "sent"
  /\ user' = Null
  /\ OverlapTail(user')
  /\ UNCHANGED <<auth, returned, classified, options, isServer, tokenStorage,
                 csrfCookie, processing, errorBag, calls>>

(***************************************************************************)
(* composables/useHttp: the verb calls of the stand-alone client           *)
(***************************************************************************)
Slots == 1..MaxInFlight
\* err is what a finished call rejected with; hadUser, whether the shared
\* user was set when the rejection was classified; outlived, whether another
\* call of the client was rejected while this one was in flight.
Settled(err, hadUser) ==
  [pc |-> "done", req |-> NoRequest, err |-> err, hadUser |-> hadUser,
   outlived |-> FALSE]
IdleCall == [Settled(Undefined, FALSE) EXCEPT !.pc = "idle"]

\* get / post / put / patch / destroy: call() up to the transport call.
CallStart(i, verb) ==
  /\ Booted /\ calls[i].pc # "flight" /\ InFlight < MaxInFlight
  /\ processing' = [processing EXCEPT !["http"] = TRUE]
  /\ calls' = [calls EXCEPT ![i] =
       [pc |-> "flight",
        req |-> prepareBody(verb, Undefined)
                  @@ prepareContext(verb, ItemsEndpoint, tokenStorage, csrfCookie),
        err |-> Undefined, hadUser |-> FALSE, outlived |-> FALSE]]
  /\ UNCHANGED <<overlap, returned, classified, options, isServer, user, tokenStorage, csrfCookie, route,
                 errorBag, auth>>

\* A verb call, or useApiFetch, given a FormData for body: method is
\* options.method as the caller spelt it.
FormStart(i, method, form) ==
  /\ Booted /\ calls[i].pc # "flight" /\ InFlight < MaxInFlight
  /\ processing' = [processing EXCEPT !["http"] = TRUE]
  /\ calls' = [calls EXCEPT ![i] =
       [pc |-> "flight",
        req |-> prepareBody(method, form)
                  @@ prepareContext(toLowerCase(method), ItemsEndpoint,
                                    tokenStorage, csrfCookie),
        err |-> Undefined, hadUser |-> FALSE, outlived |-> FALSE]]
  /\ UNCHANGED <<overlap, returned, classified, options, isServer, user, tokenStorage,
                 csrfCookie, route, errorBag, auth>>

CallCsrfSettled(i, cookie) ==
  /\ calls[i].pc = "flight" /\ calls[i].req.stage = "csrf"
  /\ csrfCookie' = IF Truthy(cookie) THEN cookie ELSE csrfCookie
  /\ calls' = [calls EXCEPT ![i].req = afterCsrfCookie(@, csrfCookie')]
  /\ UNCHANGED <<overlap, returned, classified, options, isServer, user, tokenStorage, route, processing,
                 errorBag, auth>>

CallOk(i) ==
  /\ calls[i].pc = "flight" /\ calls[i].req.stage = "sent"
  /\ errorBag' = [errorBag EXCEPT !["http"] = reset(@)]
  /\ calls' = [calls EXCEPT ![i] = Settled(Undefined, FALSE)]
  /\ UNCHANGED <<overlap, returned, classified, options, isServer, user, tokenStorage, csrfCookie, route,
                 processing, auth>>

CallFail(i, error) ==
  /\ calls[i].pc = "flight" /\ calls[i].req.stage = "sent"
  /\ LET f == callFailure(errorBag["http"], error, user)
     IN /\ processing' = [processing EXCEPT !["http"] = FALSE]
        /\ errorBag' = [errorBag EXCEPT !["http"] = f.bag]
        /\ user' = f.user
        /\ calls' = [k \in Slots |->
                      IF k = i THEN Settled(f.raised, user # Null)
                      ELSE IF calls[k].pc = "flight"
                      THEN [calls[k] EXCEPT !.outlived = TRUE]
                      ELSE calls[k]]
  /\ UNCHANGED <<overlap, returned, classified, options, isServer, tokenStorage, csrfCookie, route, auth>>

(***************************************************************************)
(* A consumer driving the client's Error Classifier and the Token Store    *)
(***************************************************************************)
NotClassified == [error |-> Undefined, threw |-> FALSE, any |-> FALSE]

\* More payload shapes of a 422, and a transport failure with a message.
ErrorsOnlyPayload == Obj("errors" :> Obj("email" :> Arr(<<"required">>)))
MessageOnlyPayload == Obj("message" :> Str("bad"))
ClassifierErrors ==
  Errors \cup
    {Error(422, "Unprocessable Content", ErrorsOnlyPayload),
     Error(422, "Unprocessable Content", MessageOnlyPayload),
     Error(422, "Unprocessable Content", EmptyObj),
     Error(422, "Unprocessable Content", Null),
     Error(0, "Failed to fetch", Undefined)}

\* errorBag.handle(error), called by the consumer; error may be undefined.
BagHandle(error) ==
  /\ LET h == handle(errorBag["http"], error, user)
     IN /\ errorBag' = [errorBag EXCEPT !["http"] = h.bag]
        /\ user' = h.user
        /\ classified' = [error |-> error, threw |-> h.threw, any |-> TRUE]
  /\ UNCHANGED <<overlap, returned, options, isServer, tokenStorage, csrfCookie, route,
                 processing, auth, calls>>

\* errorBag.reset(), called by the consumer.
BagReset ==
  /\ errorBag' = [errorBag EXCEPT !["http"] = reset(@)]
  /\ UNCHANGED <<overlap, returned, classified, options, isServer, user, tokenStorage, csrfCookie,
                 route, processing, auth, calls>>

\* useTokenStorage().set(token), called by the consumer.
StoreToken(token) ==
  /\ tokenStorage' = TokenSet(tokenStorage, token)
  /\ UNCHANGED <<overlap, returned, classified, options, isServer, user, csrfCookie, route,
                 processing, errorBag, auth, calls>>

(***************************************************************************)
(* composables/useAuthMiddleware: the decisions of the route guards        *)
(***************************************************************************)
\* The routes a navigation may target: path, fullPath (path and query) and
\* query.redirect, '' when the query has none.
ToRoutes ==
  {[path |-> ProfilePath, fullPath |-> "/profile", redirect |-> ""],
   [path |-> ProfilePath, fullPath |-> "/profile?tab=1", redirect |-> ""],
   [path |-> DashboardPath, fullPath |-> "/dashboard", redirect |-> ""],
   [path |-> LoginPath, fullPath |-> "/login", redirect |-> ""],
   [path |-> LoginPath, fullPath |-> "/login?redirect=/profile", redirect |-> ProfilePath],
   [path |-> LoginPath, fullPath |-> "/login?redirect=/login", redirect |-> LoginPath]}

AuthCheckResult(isAuthenticated, redirectTo) ==
  [isAuthenticated |-> isAuthenticated, redirectTo |-> redirectTo]

\* Variant: the intended route is remembered by its path, without the query.
checkAuthByPath(to) ==
  IF isLoggedIn THEN AuthCheckResult(TRUE, Null)
  ELSE IF options.redirect.login # Disabled
  THEN AuthCheckResult(FALSE,
         IF options.redirect.intendedEnabled
         THEN Obj(("path" :> Str(options.redirect.login))
                    @@ ("query" :> Obj("redirect" :> Str(to.path))))
         ELSE Obj("path" :> Str(options.redirect.login)))
  ELSE AuthCheckResult(FALSE, Null)

checkAuth(to) ==
  IF isLoggedIn THEN AuthCheckResult(TRUE, Null)
  ELSE IF options.redirect.login # Disabled
  THEN AuthCheckResult(FALSE,
         IF options.redirect.intendedEnabled
         THEN Obj(("path" :> Str(options.redirect.login))
                    @@ ("query" :> Obj("redirect" :> Str(to.fullPath))))
         ELSE Obj("path" :> Str(options.redirect.login)))
  ELSE AuthCheckResult(FALSE, Null)

\* Variant: the requested route is followed even when it is the target itself.
checkGuestAnyRequested(to) ==
  IF ~isLoggedIn THEN AuthCheckResult(FALSE, Null)
  ELSE IF options.redirect.intendedEnabled /\ to.redirect # ""
  THEN AuthCheckResult(TRUE, Str(to.redirect))
  ELSE IF options.redirect.postLogin # Disabled
  THEN AuthCheckResult(TRUE, Str(options.redirect.postLogin))
  ELSE AuthCheckResult(TRUE, Null)

checkGuest(to) ==
  IF ~isLoggedIn THEN AuthCheckResult(FALSE, Null)
  ELSE IF options.redirect.intendedEnabled /\ to.redirect # "" /\ to.redirect # to.path
  THEN AuthCheckResult(TRUE, Str(to.redirect))
  ELSE IF options.redirect.postLogin # Disabled
  THEN AuthCheckResult(TRUE, Str(options.redirect.postLogin))
  ELSE AuthCheckResult(TRUE, Null)

CheckAuth(to) ==
  /\ returned' = [op |-> "checkAuth", arg |-> to, value |-> checkAuth(to)]
  /\ UNCHANGED <<overlap, classified, options, isServer, user, tokenStorage, csrfCookie,
                 route, processing, errorBag, auth, calls>>

CheckGuest(to) ==
  /\ returned' = [op |-> "checkGuest", arg |-> to, value |-> checkGuest(to)]
  /\ UNCHANGED <<overlap, classified, options, isServer, user, tokenStorage, csrfCookie,
                 route, processing, errorBag, auth, calls>>

(***************************************************************************)
(* middleware/auth.custom and middleware/guest.custom: what a guard        *)
(* answers the router with                                                 *)
(***************************************************************************)
Passed == [kind |-> "pass"]
RedirectedTo(target, replace) ==
  [kind |-> "navigate", target |-> target, replace |-> replace]
Forbidden == [kind |-> "error", statusCode |-> 403]

authCustom(to) ==
  IF isLoggedIn THEN Passed
  ELSE IF options.redirect.login # Disabled
  THEN RedirectedTo(
         IF options.redirect.intendedEnabled
         THEN Obj(("path" :> Str(options.redirect.login))
                    @@ ("query" :> Obj("redirect" :> Str(to.fullPath))))
         ELSE Obj("path" :> Str(options.redirect.login)),
         TRUE)
  ELSE Forbidden

guestCustom(to) ==
  IF ~isLoggedIn THEN Passed
  ELSE IF options.redirect.intendedEnabled /\ to.redirect # "" /\ to.redirect # to.path
  THEN RedirectedTo(Str(to.redirect), FALSE)
  ELSE IF options.redirect.postLogin # Disabled
  THEN RedirectedTo(Str(options.redirect.postLogin), TRUE)
  ELSE Forbidden

AuthGuard(to) ==
  /\ returned' = [op |-> "auth", arg |-> to, value |-> authCustom(to)]
  /\ UNCHANGED <<overlap, classified, options, isServer, user, tokenStorage, csrfCookie,
                 route, processing, errorBag, auth, calls>>

GuestGuard(to) ==
  /\ returned' = [op |-> "guest", arg |-> to, value |-> guestCustom(to)]
  /\ UNCHANGED <<overlap, classified, options, isServer, user, tokenStorage, csrfCookie,
                 route, processing, errorBag, auth, calls>>

(***************************************************************************)
(* helpers/extractNestedValue, called on its own                           *)
(***************************************************************************)
ExtractResponses ==
  {Obj("data" :> Obj("token" :> Str("abc"))),
   Obj("data" :> Obj("token" :> Null)),
   Obj("data" :> Null), Obj("data" :> Num(0)), Obj("data" :> Str("")),
   Obj("data" :> Bool(FALSE)), Obj("data" :> Str("abc")),
   Obj("token" :> Str("abc")), EmptyObj, Null, Undefined}

ExtractKeys ==
  {NullKey, Key(<<>>), Key(<<"token">>), Key(<<"data">>),
   Key(<<"data", ".", "token">>), Key(<<"data", ".", "token", ".", "id">>),
   Key(<<"data", ".", ".", "token">>)}

Extract(response, wrapperKey) ==
  /\ returned' = [op |-> "extract", arg |-> <<response, wrapperKey>>,
                  value |-> extractNestedValue(response, wrapperKey)]
  /\ UNCHANGED <<overlap, classified, options, isServer, user, tokenStorage, csrfCookie,
                 route, processing, errorBag, auth, calls>>

NothingReturned == [op |-> "none", arg |-> Undefined, value |-> Undefined]

(***************************************************************************)
(* The application: boot (the plugin fetches the user), then operations    *)
(***************************************************************************)
\* The state after module set-up, with the plugin's user fetch under way.
Boot(configs, routes) ==
  /\ options \in configs
  /\ isServer \in BOOLEAN
  /\ isServer => (options.authMode = "cookie"
                  \/ options.token.storageType = "localStorage")
  /\ user = Null
  /\ tokenStorage = EmptyStorage
  /\ csrfCookie = Undefined
  /\ route \in routes
  /\ processing = [c \in Clients |-> FALSE]
  /\ errorBag = [c \in Clients |-> EmptyBag]
  /\ auth = Invocation("plugin", "user", FALSE,
              prepareContext("get", options.endpoints.user, tokenStorage, csrfCookie),
              Undefined, [NoOutput EXCEPT !.fetches = 1])
  /\ overlap = NoInvocation
  /\ calls = [i \in Slots |-> IdleCall]
  /\ classified = NotClassified
  /\ returned = NothingReturned

\* The configuration of the README, in each auth mode.
DefaultConfigs ==
  {o \in Configs :
     /\ o.userResponseKey = NullKey
     /\ o.token = [storageType |-> "cookie", responseKey |-> Key(<<"token">>)]
     /\ o.redirect = [intendedEnabled |-> FALSE, login |-> LoginPath,
                      postLogin |-> DashboardPath, postLogout |-> LoginPath]}

Init == Boot(Configs, Routes)

InitDefault == Boot(DefaultConfigs, {[path |-> LoginPath, redirect |-> ""]})

\* The operations of useAuth and of the plugin.
NextAuth ==
  \/ \E cb \in BOOLEAN : LoginStart(cb)
  \/ \E cookie \in CsrfValues \cup {Undefined} : AuthCsrfSettled(cookie)
  \/ \E body \in LoginBodies : LoginPostOk(body)
  \/ \E error \in Errors : AuthPostFail(error)
  \/ \E body \in UserBodies : UserFetchOk(body)
  \/ \E error \in Errors : UserFetchFail(error)
  \/ RefreshStart
  \/ \E cb \in BOOLEAN : LogoutStart(cb)
  \/ LogoutPostOk

\* The verb calls of the stand-alone client, next to refreshUser().
NextHttp ==
  \/ \E i \in Slots, verb \in Verbs : CallStart(i, verb)
  \/ \E i \in Slots, cookie \in CsrfValues \cup {Undefined} : CallCsrfSettled(i, cookie)
  \/ \E i \in Slots : CallOk(i)
  \/ \E i \in Slots, error \in Errors : CallFail(i, error)
  \/ RefreshStart
  \/ \E body \in UserBodies : UserFetchOk(body)
  \/ \E error \in Errors : UserFetchFail(error)

\* The Token Store on its own: token mode with either backing, on the client
\* and on the server.
StoreConfigs == {o \in Configs : o.authMode = "token" /\ o.userResponseKey = NullKey}
StoredTokens == {Str("abc"), Str("xyz"), Str(""), Undefined}
InitStore == Boot(StoreConfigs, {[path |-> LoginPath, redirect |-> ""]})
NextStore ==
  \/ \E body \in UserBodies : UserFetchOk(body)
  \/ \E error \in Errors : UserFetchFail(error)
  \/ \E token \in StoredTokens : StoreToken(token)

\* The guards under every redirect configuration, with and without a login
\* path, consulted during and after the plugin's user fetch.
GuardConfigs ==
  {[o EXCEPT !.redirect.login = l] :
     o \in {c \in Configs : c.authMode = "cookie"}, l \in {Disabled, LoginPath}}
InitGuard == Boot(GuardConfigs, {[path |-> LoginPath, redirect |-> ""]})
NextGuard ==
  \/ \E body \in UserBodies : UserFetchOk(body)
  \/ \E error \in Errors : UserFetchFail(error)
  \/ \E to \in ToRoutes : CheckAuth(to)
  \/ \E to \in ToRoutes : CheckGuest(to)
  \/ \E to \in ToRoutes : AuthGuard(to)
  \/ \E to \in ToRoutes : GuestGuard(to)

\* extractNestedValue applied to responses and keys of every shape.
NextExtract ==
  \/ \E body \in UserBodies : UserFetchOk(body)
  \/ \E error \in Errors : UserFetchFail(error)
  \/ \E response \in ExtractResponses, key \in ExtractKeys : Extract(response, key)

\* The transport makes a failed attempt again: onRequest runs once more.
CallRetry(i) ==
  /\ calls[i].pc = "flight" /\ calls[i].req.stage = "sent"
  /\ Retries(calls[i].req) > 0
  /\ calls' = [calls EXCEPT ![i].req = prepareRetry(@, tokenStorage, csrfCookie)]
  /\ UNCHANGED <<overlap, returned, classified, options, isServer, user, tokenStorage,
                 csrfCookie, route, processing, errorBag, auth>>

\* The FormData requests explored: each method, in either spelling.
FormMethods == {"get", "post", "put", "PATCH", "DELETE"}
Forms == {FormData(<<<<"name", "test">>>>)}

\* One Error Classifier driven directly, after the plugin's user fetch.
NextBag ==
  \/ \E body \in UserBodies : UserFetchOk(body)
  \/ \E error \in Errors : UserFetchFail(error)
  \/ \E error \in ClassifierErrors \cup {Undefined} : BagHandle(error)
  \/ BagReset
  \/ \E token \in {Str("abc"), Undefined} : StoreToken(token)

\* The preparer at work for the stand-alone client: no call fails.
NextPrep ==
  \/ \E body \in UserBodies : UserFetchOk(body)
  \/ \E error \in Errors : UserFetchFail(error)
  \/ \E token \in {Str("abc"), Str(""), Undefined} : StoreToken(token)
  \/ \E i \in Slots, verb \in Verbs : CallStart(i, verb)
  \/ \E i \in Slots, method \in FormMethods, form \in Forms : FormStart(i, method, form)
  \/ \E i \in Slots, cookie \in CsrfValues \cup {Undefined} : CallCsrfSettled(i, cookie)
  \/ \E i \in Slots : CallOk(i)

\* useAuth with a second refreshUser() or login() overlapping the first
\* invocation; requests fail with a 401 or a 500.
OverlapErrors == {e \in Errors : e.status \in {401, 500}}
NextOverlap ==
  \/ \E cb \in BOOLEAN : LoginStart(cb)
  \/ \E cookie \in CsrfValues \cup {Undefined} : AuthCsrfSettled(cookie)
  \/ \E body \in LoginBodies : LoginPostOk(body)
  \/ \E error \in OverlapErrors : AuthPostFail(error)
  \/ \E body \in UserBodies : UserFetchOk(body)
  \/ \E error \in OverlapErrors : UserFetchFail(error)
  \/ RefreshStart
  \/ \E cb \in BOOLEAN : LogoutStart(cb)
  \/ LogoutPostOk
  \/ OverlapRefreshStart
  \/ \E cb \in BOOLEAN : OverlapLoginStart(cb)
  \/ \E cookie \in CsrfValues \cup {Undefined} : OverlapCsrfSettled(cookie)
  \/ \E body \in LoginBodies : OverlapLoginPostOk(body)
  \/ \E error \in OverlapErrors : OverlapPostFail(error)
  \/ \E body \in UserBodies : OverlapUserFetchOk(body)
  \/ \E error \in OverlapErrors : OverlapUserFetchFail(error)

\* The preparer with retries enabled.
NextRetry ==
  \/ \E body \in UserBodies : UserFetchOk(body)
  \/ \E error \in Errors : UserFetchFail(error)
  \/ \E token \in {Str("abc"), Undefined} : StoreToken(token)
  \/ \E i \in Slots, verb \in Verbs : CallStart(i, verb)
  \/ \E i \in Slots, method \in FormMethods, form \in Forms : FormStart(i, method, form)
  \/ \E i \in Slots, cookie \in CsrfValues \cup {Undefined} : CallCsrfSettled(i, cookie)
  \/ \E i \in Slots : CallRetry(i)
  \/ \E i \in Slots : CallOk(i)

\* useAuth under every configuration, one invocation at a time.
Spec == Init /\ [][NextAuth]_vars

\* The stand-alone client under the default configuration: its verb calls
\* overlap with each other and with refreshUser().
SpecHttp == InitDefault /\ [][NextHttp]_vars

\* Sequences of handle() and reset() on one Error Classifier.
SpecBag == InitDefault /\ [][NextBag]_vars

\* Requests prepared under the default configuration, with a token stored
\* or not.
SpecPrep == InitDefault /\ [][NextPrep]_vars

\* Sequences of set() on the Token Store.
SpecStore == InitStore /\ [][NextStore]_vars

\* The route guards consulted in every auth state.
SpecGuard == InitGuard /\ [][NextGuard]_vars

\* The extraction helper on its own.
SpecExtract == InitDefault /\ [][NextExtract]_vars

\* Two invocations of useAuth under way at once, default configuration.
SpecOverlap == InitDefault /\ [][NextOverlap]_vars

\* Requests prepared and prepared again by the transport's retry.
SpecRetry == InitDefault /\ [][NextRetry]_vars

(***************************************************************************)
(* Properties                                                              *)
(***************************************************************************)
UnauthenticatedText == Str(options.errorMessages.unauthenticated)
Rejected401(call) == call.pc = "done" /\ call.err.t = "error" /\ call.err.status = 401

\* C1: when a verb call of a client is rejected with a 401 while a user is
\* held, then at the rejection the shared user is null (isLoggedIn is false)
\* and the client's errorBag.message is the configured unauthenticated text.
C1_UnauthorizedClearsUser ==
  [][\A i \in Slots :
       (calls[i].pc = "flight" /\ Rejected401(calls'[i]) /\ calls'[i].hadUser)
         => (user' = Null /\ errorBag'["http"].message = UnauthenticatedText)]_vars

C1_Witness ==
  \E i \in Slots :
    /\ Rejected401(calls[i]) /\ calls[i].hadUser
    /\ user = Null /\ errorBag["http"].message = UnauthenticatedText

LoggedOut ==
  /\ auth.op = "logout" /\ auth.pc = "done"
  /\ auth.out.posts = 1 /\ auth.out.err = Undefined

\* C2: in token mode, once logout() has completed successfully the Token
\* Store yields no token (so that no later request carries an Authorization
\* header) until the next login.
C2_NoTokenAfterLogout ==
  (options.authMode = "token" /\ LoggedOut) => ~Truthy(TokenGet(tokenStorage))

\* A user record, as opposed to null or an absent value.
IsRecord(v) == v.t = "object"

\* C3: isLoggedIn is true exactly when the shared user slot holds a user
\* record; it is false whenever none is held, also after a user fetch whose
\* response lacks the userResponseKey path.
C3_LoggedInIffRecord == isLoggedIn <=> IsRecord(user)

\* The navigation the default post-login redirect is described to make.
IntendedApplies(rt) ==
  options.redirect.intendedEnabled /\ rt.redirect # "" /\ rt.redirect # rt.path
DescribedLoginNavs(rt) ==
  IF IntendedApplies(rt) THEN <<rt.redirect>>
  ELSE IF options.redirect.postLogin # Disabled /\ options.redirect.postLogin # rt.path
  THEN <<options.redirect.postLogin>>
  ELSE <<>>

\* C4: login() from the anonymous state without callback, when the login
\* POST and the user fetch both succeed: user is the value extracted from
\* the user response (and isLoggedIn is true when that is a record), and
\* login() made at most one navigation: to the route's redirect query value
\* if intended-redirect is enabled and the value is present and differs from
\* the current path, else to postLogin if configured and different from the
\* current path, else none.
C4_LoginNavigatesOnce ==
  [][\A body \in UserBodies :
       (auth.op = "login" /\ ~auth.cb /\ UserFetchOk(body))
         => /\ user' = extractNestedValue(body, userResponseKey)
            /\ IsRecord(user') => isLoggedIn'
            /\ auth'.pc = "done" /\ ~auth'.out.called
            /\ Len(auth'.out.navs) <= 1
            /\ auth'.out.navs = DescribedLoginNavs(route)
            /\ route' = IF auth'.out.navs = <<>> THEN route
                        ELSE navigateTo(auth'.out.navs[1])]_vars

C4_Witness ==
  /\ auth.op = "login" /\ auth.pc = "done" /\ ~auth.cb /\ auth.out.posts = 1
  /\ IsRecord(user) /\ auth.out.navs = <<ProfilePath>>
  /\ options.redirect.postLogin = DashboardPath

\* C5 as claimed: whenever login() is invoked with a callback, in every
\* starting auth state, login() issues no navigateTo.
C5_CallbackNeverNavigates ==
  (auth.op = "login" /\ auth.pc = "done" /\ auth.cb) => auth.out.navs = <<>>

\* C5 as amended: a login() invoked with a callback from the anonymous state
\* issues no navigateTo, whatever the redirect configuration, and when its
\* POST succeeds the callback is invoked; invoked while already authenticated
\* it never invokes the callback.
C5_CallbackOwnsNavigation ==
  (auth.op = "login" /\ auth.pc = "done" /\ auth.cb)
    => /\ auth.out.posts = 1 => auth.out.navs = <<>>
       /\ (auth.out.posts = 1 /\ auth.out.err = Undefined) => auth.out.called
       /\ auth.out.posts = 0 => ~auth.out.called

C5_Witness ==
  /\ auth.op = "login" /\ auth.pc = "done" /\ auth.cb /\ auth.out.posts = 1
  /\ auth.out.called /\ IsRecord(user)
  /\ options.redirect.intendedEnabled /\ route.redirect = ProfilePath
  /\ options.redirect.postLogin = DashboardPath

\* C6: login() invoked while already authenticated issues no network call
\* and leaves user, stored token and error bag unchanged; it navigates to
\* postLogin exactly when that path is configured and differs from the
\* current path.
C6_DuplicateLogin ==
  [][\A cb \in BOOLEAN :
       (user # Null /\ LoginStart(cb))
         => /\ auth'.pc = "done" /\ auth'.req = NoRequest
            /\ auth'.out.posts = 0 /\ auth'.out.fetches = 0
            /\ user' = user /\ tokenStorage' = tokenStorage
            /\ errorBag' = errorBag /\ processing' = processing
            /\ auth'.out.navs =
                 IF options.redirect.postLogin # Disabled
                    /\ options.redirect.postLogin # route.path
                 THEN <<options.redirect.postLogin>> ELSE <<>>]_vars

C6_Witness ==
  /\ auth.op = "login" /\ auth.pc = "done" /\ auth.out.posts = 0
  /\ user # Null /\ auth.out.navs = <<DashboardPath>>

LoginPostSucceeded ==
  /\ auth.op = "login" /\ auth.pc \in {"user", "done"}
  /\ auth.out.posts = 1 /\ auth.out.err = Undefined

\* C8: after a successful token-mode login the Token Store holds exactly the
\* value at the responseKey path of the login response; when the path is
\* absent it holds no token (a token stored before is removed) and login
\* still goes on to fetch the user.  In cookie mode login() never writes the
\* Token Store.
C8_TokenFromResponse ==
  /\ (options.authMode = "token" /\ LoginPostSucceeded)
       => LET value == extractNestedValue(auth.resp, options.token.responseKey)
          IN /\ auth.out.sets = 1 /\ auth.out.fetches = 1
             /\ IF Truthy(value) THEN TokenGet(tokenStorage) = value
                ELSE ~Truthy(TokenGet(tokenStorage))
  /\ (options.authMode = "cookie" /\ auth.op = "login")
       => (auth.out.sets = 0 /\ tokenStorage = EmptyStorage)

\* A token-mode login whose response lacks the path has finished, fetching
\* the user, and the store is empty.
C8_Witness ==
  /\ options.authMode = "token" /\ LoginPostSucceeded /\ auth.pc = "done"
  /\ extractNestedValue(auth.resp, options.token.responseKey) = Undefined
  /\ IsRecord(user) /\ TokenGet(tokenStorage) = Undefined

\* C9: logout() while authenticated issues exactly one POST and, once it has
\* succeeded, sets user to null before the callback or the navigation; with
\* no callback it navigates to postLogout exactly when that is configured
\* and differs from the current path; with a callback it does not navigate.
C9_Logout ==
  [][LogoutPostOk
       => /\ auth'.pc = "done" /\ auth'.out.posts = 1
          /\ user # Null /\ user' = Null
          /\ IF auth.cb
             THEN /\ auth'.out.called /\ auth'.out.cbUser = Null
                  /\ auth'.out.navs = <<>> /\ route' = route
             ELSE /\ ~auth'.out.called
                  /\ auth'.out.navs =
                       IF options.redirect.postLogout # Disabled
                          /\ options.redirect.postLogout # route.path
                       THEN <<options.redirect.postLogout>> ELSE <<>>]_vars

C9_Witness ==
  /\ LoggedOut /\ ~auth.cb /\ user = Null /\ auth.out.navs = <<LoginPath>>

\* C10: logout() invoked while not authenticated is a no-op: no request, no
\* navigation, no callback, and user, stored token and error bag unchanged.
C10_LogoutWhenAnonymous ==
  [][\A cb \in BOOLEAN :
       (user = Null /\ LogoutStart(cb))
         => /\ auth'.pc = "done" /\ auth'.req = NoRequest /\ auth'.out = NoOutput
            /\ user' = user /\ tokenStorage' = tokenStorage
            /\ errorBag' = errorBag /\ processing' = processing
            /\ route' = route]_vars

C10_Witness ==
  /\ auth.op = "logout" /\ auth.pc = "done" /\ auth.out = NoOutput
  /\ auth.cb /\ user = Null /\ errorBag["auth"].message # Null

\* C11: refreshUser() (called directly or by login()) never rejects: when
\* the user fetch fails, with any status or without response, it resolves
\* with user = null; when the fetch succeeds it resolves with user set to the
\* value extracted with userResponseKey.
C11_RefreshUserNeverThrows ==
  [][/\ \A error \in Errors :
          (auth.op \in {"refreshUser", "login"} /\ UserFetchFail(error))
            => /\ user' = Null
               /\ auth'.pc = "done" /\ auth'.out.err = Undefined
     /\ \A body \in UserBodies :
          (auth.op \in {"refreshUser", "login"} /\ UserFetchOk(body))
            => /\ user' = extractNestedValue(body, userResponseKey)
               /\ auth'.pc = "done" /\ auth'.out.err = Undefined]_vars

\* A refreshUser() made while a token was stored has resolved with user =
\* null: no successful fetch leaves null (every body is an object), so its
\* fetch failed.
C11_Witness ==
  /\ auth.op = "refreshUser" /\ auth.pc = "done"
  /\ auth.out.fetches = 1 /\ auth.out.err = Undefined
  /\ user = Null /\ Truthy(TokenGet(tokenStorage))

\* C12: whenever the transport call of a verb method fails, the call rejects
\* with the very error the transport raised, for every status and every
\* payload shape.
C12_RejectsWithTransportError ==
  [][\A i \in Slots, error \in Errors :
       CallFail(i, error) => calls'[i].err = error]_vars

\* C13: handle(e) never throws: for every error value, with or without a
\* response payload, it returns normally.
C13_HandleNeverThrows == classified.any => ~classified.threw

\* C14: immediately after handle(e) has classified a defined error e, in any
\* sequence of handle() and reset() calls on one Error Classifier, errors is
\* non-null only if e was a 422.
C14_FieldErrorsOnlyFor422 ==
  [][\A error \in ClassifierErrors :
       BagHandle(error)
         => (errorBag'["http"].errors # Null => error.status = 422)]_vars

\* The message handle(e) is described to leave, by status.
DescribedMessage(error) ==
  CASE error.status = 422 ->
         IF Truthy(Member(error.data, "message")) THEN Member(error.data, "message")
         ELSE Str(options.errorMessages.default)
    [] error.status = 419 -> Str(options.errorMessages.csrf)
    [] error.status = 401 -> Str(options.errorMessages.unauthenticated)
    [] OTHER -> IF error.message # "" THEN Str(error.message)
                ELSE Str(options.errorMessages.default)

DescribedErrors(error) ==
  IF Truthy(Member(error.data, "errors")) THEN Member(error.data, "errors") ELSE Null

\* C15: handle(e) on a defined error e sets message by status: for a 422 the
\* payload's message or else the default text, with errors the payload's
\* errors map or null; for a 419 the CSRF text; for a 401 the unauthenticated
\* text; otherwise e's own message or else the default text.  Hence message
\* is never null or empty after classification.
C15_MessageByStatus ==
  [][\A error \in ClassifierErrors :
       BagHandle(error)
         => /\ errorBag'["http"].message = DescribedMessage(error)
            /\ error.status = 422 => errorBag'["http"].errors = DescribedErrors(error)
            /\ Truthy(errorBag'["http"].message)]_vars

OthersIdle(i) == \A j \in Slots \ {i} : calls[j].pc # "flight"

\* C17: the state of a client after a verb call completes, no other call of
\* that client being in flight, is fixed by the call's outcome: on success
\* message and errors are null and processing is still true; on failure
\* processing is false.
C17_StateAfterCall ==
  [][\A i \in Slots :
       /\ (CallOk(i) /\ OthersIdle(i))
            => /\ errorBag'["http"] = EmptyBag
               /\ processing'["http"] = TRUE
       /\ \A error \in Errors :
            (CallFail(i, error) /\ OthersIdle(i)) => processing'["http"] = FALSE]_vars

\* C18: in every reachable state a client's processing flag is true exactly
\* when at least one request of that client is in flight.
C18_ProcessingIffInFlight ==
  processing["http"] <=> (\E i \in Slots : calls[i].pc = "flight")

HasHeader(req, name) == name \in DOMAIN req.headers

\* C19: cookie mode.  A request with method POST, PUT, PATCH or DELETE gets
\* the CSRF cookie's value as the configured header without priming when the
\* cookie is present; when it is absent exactly one priming GET is made
\* before the transport call, the cookie is read again, and the header is
\* attached iff the cookie is then present.  A GET never gets the header and
\* never primes.
C19_CsrfHeader ==
  [][\A i \in Slots :
       /\ \A verb \in Verbs :
            (options.authMode = "cookie" /\ CallStart(i, verb))
              => LET r == calls'[i].req
                 IN IF verb \in Mutating /\ Truthy(csrfCookie)
                    THEN /\ r.stage = "sent" /\ r.primes = 0
                         /\ HasHeader(r, CsrfHeaderName)
                         /\ r.headers[CsrfHeaderName] = csrfCookie.s
                    ELSE IF verb \in Mutating
                    THEN /\ r.stage = "csrf" /\ r.primes = 1
                         /\ ~HasHeader(r, CsrfHeaderName)
                    ELSE /\ r.stage = "sent" /\ r.primes = 0
                         /\ ~HasHeader(r, CsrfHeaderName)
       /\ \A cookie \in CsrfValues \cup {Undefined} :
            CallCsrfSettled(i, cookie)
              => LET r == calls'[i].req
                 IN /\ options.authMode = "cookie" /\ r.method \in Mutating
                    /\ r.stage = "sent" /\ r.primes = 1
                    /\ HasHeader(r, CsrfHeaderName) <=> Truthy(csrfCookie')
                    /\ Truthy(csrfCookie') => r.headers[CsrfHeaderName] = csrfCookie'.s]_vars

\* A DELETE that found no cookie is with the transport after one priming GET,
\* carrying the header.
C19_Witness ==
  \E i \in Slots :
    /\ options.authMode = "cookie" /\ calls[i].pc = "flight"
    /\ calls[i].req.method = "delete" /\ calls[i].req.stage = "sent"
    /\ calls[i].req.primes = 1 /\ HasHeader(calls[i].req, CsrfHeaderName)

\* C20: after the credential-attachment step the request carries one kind of
\* credential by mode and method.  Cookie mode: never an Authorization
\* header, even with a token stored, and the CSRF header only on mutating
\* methods.  Token mode: Authorization: Bearer <token> exactly when the Token
\* Store holds a non-empty token, never the CSRF header and no request to the
\* CSRF endpoint.
C20_OneCredential ==
  [][\A i \in Slots :
       /\ \A verb \in Verbs :
            CallStart(i, verb)
              => LET r == calls'[i].req
                     token == TokenGet(tokenStorage)
                 IN IF options.authMode = "cookie"
                    THEN /\ ~HasHeader(r, "Authorization")
                         /\ HasHeader(r, CsrfHeaderName) => verb \in Mutating
                    ELSE /\ r.stage = "sent" /\ r.primes = 0
                         /\ ~HasHeader(r, CsrfHeaderName)
                         /\ HasHeader(r, "Authorization")
                              <=> (token.t = "string" /\ token.s # "")
                         /\ HasHeader(r, "Authorization")
                              => r.headers["Authorization"] = <<"Bearer", token.s>>
       /\ \A cookie \in CsrfValues \cup {Undefined} :
            CallCsrfSettled(i, cookie)
              => /\ options.authMode = "cookie"
                 /\ ~HasHeader(calls'[i].req, "Authorization")]_vars

\* Cookie mode with a token in the store: a POST is with the transport with
\* the CSRF header and without Authorization.
C20_Witness ==
  \E i \in Slots :
    /\ options.authMode = "cookie" /\ TokenGet(tokenStorage) = Str("abc")
    /\ calls[i].pc = "flight" /\ calls[i].req.stage = "sent"
    /\ calls[i].req.method = "post"
    /\ HasHeader(calls[i].req, CsrfHeaderName)
    /\ ~HasHeader(calls[i].req, "Authorization")

\* The name of a method in capitals.
Uppercased(method) ==
  CASE method \in {"put", "PUT"} -> "PUT"
    [] method \in {"patch", "PATCH"} -> "PATCH"
    [] method \in {"delete", "DELETE"} -> "DELETE"
    [] method \in {"post", "POST"} -> "POST"
    [] OTHER -> "GET"

\* C21: a request whose body is a multipart form and whose logical method is
\* PUT, PATCH or DELETE, in either auth mode, goes to the transport with
\* method POST and with a _method field, the original method name in
\* capitals, appended to the form.
C21_MethodSpoofing ==
  [][\A i \in Slots, method \in FormMethods, form \in Forms :
       (Uppercased(method) \in {"PUT", "PATCH", "DELETE"} /\ FormStart(i, method, form))
         => /\ calls'[i].req.sent = "POST"
            /\ calls'[i].req.body =
                 FormData(form.f \o <<<<"_method", Uppercased(method)>>>>)
            /\ calls'[i].req.method \in Mutating]_vars

\* Token mode: a PATCH with a form is under way as a POST carrying
\* _method=PATCH.
C21_Witness ==
  \E i \in Slots :
    /\ options.authMode = "token" /\ calls[i].pc = "flight"
    /\ calls[i].req.method = "patch" /\ calls[i].req.sent = "POST"
    /\ calls[i].req.body = FormData(<<<<"name", "test">>, <<"_method", "PATCH">>>>)

\* C22: a multipart-form request whose logical method is POST or GET is sent
\* with its method unchanged and its form unchanged: no _method field is
\* appended.
C22_NoSpoofingForPostAndGet ==
  [][\A i \in Slots, method \in FormMethods, form \in Forms :
       (Uppercased(method) \in {"POST", "GET"} /\ FormStart(i, method, form))
         => /\ Uppercased(calls'[i].req.sent) = Uppercased(method)
            /\ calls'[i].req.body = form]_vars

\* C23: the Token Store is last-write-wins and shared by its instances:
\* after any sequence of set() calls, right after set(t) with a non-empty t,
\* get() returns t, for the cookie and the localStorage backing.
C23_LastWriteWins ==
  [][\A token \in StoredTokens :
       (Truthy(token) /\ StoreToken(token)) => TokenGet(tokenStorage') = token]_vars

\* On the server, where localStorage is out of reach, get() returns the token
\* last set.
C23_Witness ==
  /\ options.token.storageType = "localStorage" /\ isServer
  /\ tokenStorage.local = Null /\ TokenGet(tokenStorage) = Str("xyz")

\* C24: set(undefined) and set('') both remove the stored value: after
\* either, get() yields undefined, for both backings.
C24_EmptyRemoves ==
  [][\A token \in {Undefined, Str("")} :
       StoreToken(token) => TokenGet(tokenStorage') = Undefined]_vars

\* C25: checkAuth(to) returns {true, null} if authenticated; else, if a
\* login path is configured, {false, {path: loginPath}} with query
\* {redirect: to.fullPath} exactly when intended-redirect is enabled; else
\* {false, null}.  It changes neither user, token nor route.
C25_CheckAuth ==
  [][\A to \in ToRoutes :
       CheckAuth(to)
         => /\ returned'.value.isAuthenticated = isLoggedIn
            /\ returned'.value.redirectTo =
                 IF isLoggedIn \/ options.redirect.login = Disabled THEN Null
                 ELSE IF options.redirect.intendedEnabled
                 THEN Obj(("path" :> Str(options.redirect.login))
                            @@ ("query" :> Obj("redirect" :> Str(to.fullPath))))
                 ELSE Obj("path" :> Str(options.redirect.login))
            /\ user' = user /\ tokenStorage' = tokenStorage /\ route' = route]_vars

\* An anonymous visitor of /profile?tab=1 is sent to the login path with the
\* full path, query included, as the intended route.
C25_Witness ==
  /\ returned.op = "checkAuth" /\ user = Null
  /\ returned.arg.fullPath = "/profile?tab=1"
  /\ returned.value =
       AuthCheckResult(FALSE,
         Obj(("path" :> Str(LoginPath))
               @@ ("query" :> Obj("redirect" :> Str("/profile?tab=1")))))

\* C26: checkGuest(to) returns {false, null} if not authenticated; else
\* {true, to.query.redirect} when intended-redirect is enabled and that value
\* is present and differs from to.path; else {true, postLogin} when a
\* post-login path is configured; else {true, null}.
C26_CheckGuest ==
  [][\A to \in ToRoutes :
       CheckGuest(to)
         => /\ returned'.value.isAuthenticated = isLoggedIn
            /\ returned'.value.redirectTo =
                 IF ~isLoggedIn THEN Null
                 ELSE IF options.redirect.intendedEnabled /\ to.redirect # ""
                         /\ to.redirect # to.path
                 THEN Str(to.redirect)
                 ELSE IF options.redirect.postLogin # Disabled
                 THEN Str(options.redirect.postLogin)
                 ELSE Null
            /\ user' = user /\ tokenStorage' = tokenStorage /\ route' = route]_vars

\* An authenticated visitor of /login?redirect=/login is sent to postLogin:
\* the requested route is the target's own path.
C26_Witness ==
  /\ returned.op = "checkGuest" /\ IsRecord(user)
  /\ options.redirect.intendedEnabled
  /\ returned.arg.path = LoginPath /\ returned.arg.redirect = LoginPath
  /\ returned.value = AuthCheckResult(TRUE, Str(DashboardPath))

\* The value reached by following the segments in order; undefined as soon
\* as a segment is missing.
RECURSIVE Traverse(_, _)
Traverse(v, segments) ==
  IF segments = <<>> THEN v
  ELSE IF v.t = "object" /\ Head(segments) \in DOMAIN v.o
  THEN Traverse(v.o[Head(segments)], Tail(segments))
  ELSE Undefined

\* C27: for every dot-path key k and nested object o, extractNestedValue(o, k)
\* is the value reached by traversing the '.'-separated segments of k in
\* order, and undefined whenever a segment along the path is missing, also
\* when an intermediate value is null, 0, '' or false; with a null or empty
\* key it is o itself.
C27_ExtractIsTraversal ==
  [][\A response \in ExtractResponses, key \in ExtractKeys :
       (IsRecord(response) /\ Extract(response, key))
         => returned'.value =
              IF key.null \/ key.chars = <<>> THEN response
              ELSE Traverse(response, SplitDots(key.chars))]_vars

Navigated(inv) == inv.out.called \/ inv.out.navs # <<>>

\* C28: within one login() in token mode the steps are sequential: nothing
\* is persisted before the login POST has completed; when it completes the
\* token is persisted and the user-fetch request prepared after that carries
\* Authorization: Bearer <token of this response>; the callback is invoked,
\* or a navigation made, only when the user fetch has completed.
C28_LoginStepsInOrder ==
  [][options.authMode = "token" =>
       /\ \A cb \in BOOLEAN :
            (user = Null /\ LoginStart(cb))
              => /\ auth'.pc = "post" /\ auth'.out.sets = 0 /\ auth'.out.fetches = 0
                 /\ tokenStorage' = tokenStorage /\ ~Navigated(auth')
       /\ \A body \in LoginBodies :
            LoginPostOk(body)
              => LET token == extractNestedValue(body, options.token.responseKey)
                 IN /\ auth.out.sets = 0 /\ auth.out.fetches = 0
                    /\ auth'.out.sets = 1 /\ auth'.out.fetches = 1
                    /\ auth'.pc = "user" /\ auth'.req.endpoint = options.endpoints.user
                    /\ IF Truthy(token)
                       THEN /\ HasHeader(auth'.req, "Authorization")
                            /\ auth'.req.headers["Authorization"] = <<"Bearer", token.s>>
                       ELSE ~HasHeader(auth'.req, "Authorization")
                    /\ ~Navigated(auth') /\ route' = route
       /\ (auth'.op = "login" /\ auth'.out.posts = 1 /\ Navigated(auth') /\ ~Navigated(auth))
            => /\ auth.op = "login" /\ auth.pc = "user" /\ auth.req.stage = "sent"
               /\ auth'.pc = "done" /\ auth'.out.fetches = 1]_vars

\* The login response held the token xyz: the user fetch, under way, carries
\* it, and nothing has been navigated yet.
C28_Witness ==
  /\ options.authMode = "token" /\ auth.op = "login" /\ auth.pc = "user"
  /\ auth.resp = Obj("token" :> Str("xyz")) /\ auth.out.sets = 1
  /\ HasHeader(auth.req, "Authorization")
  /\ auth.req.headers["Authorization"] = <<"Bearer", "xyz">>
  /\ ~Navigated(auth)

\* C29: CSRF priming never blocks or fails the primary request: when the
\* priming GET rejects, or leaves the cookie absent, the onRequest step still
\* completes and the primary request is sent, unchanged, without the CSRF
\* header.
C29_PrimingNeverBlocks ==
  [][\A i \in Slots :
       (CallCsrfSettled(i, Undefined) /\ ~Truthy(csrfCookie))
         => /\ calls'[i].pc = "flight" /\ calls'[i].err = Undefined
            /\ calls'[i].req.stage = "sent"
            /\ ~HasHeader(calls'[i].req, CsrfHeaderName)
            /\ calls'[i].req.headers = calls[i].req.headers
            /\ calls'[i].req.method = calls[i].req.method
            /\ calls'[i].req.sent = calls[i].req.sent
            /\ calls'[i].req.body = calls[i].req.body
            /\ csrfCookie' = csrfCookie]_vars

\* A PUT is with the transport without the header, after a priming GET that
\* left no cookie.
C29_Witness ==
  \E i \in Slots :
    /\ calls[i].pc = "flight" /\ calls[i].req.stage = "sent"
    /\ calls[i].req.method = "put" /\ calls[i].req.primes = 1
    /\ ~HasHeader(calls[i].req, CsrfHeaderName) /\ csrfCookie = Undefined

\* C30: only a 401 clears authentication state: handle(e) for a 419, a 422,
\* any other status or a status-less error leaves the shared user unchanged,
\* and no classification, a 401 included, changes the stored token.
C30_Only401ClearsUser ==
  [][\A error \in ClassifierErrors \cup {Undefined} :
       BagHandle(error)
         => /\ IF error.t = "error" /\ error.status = 401
               THEN user' = Null ELSE user' = user
            /\ tokenStorage' = tokenStorage]_vars

\* A 419 was classified while a user was held and a token stored: both are
\* still there.
C30_Witness ==
  /\ classified.any /\ classified.error.t = "error" /\ classified.error.status = 419
  /\ errorBag["http"].message = Str(options.errorMessages.csrf)
  /\ IsRecord(user) /\ TokenGet(tokenStorage) = Str("abc")

Priming(call) == call.pc = "flight" /\ call.req.stage = "csrf"

\* C31: concurrent mutating cookie-mode requests are not coordinated: a
\* request that reads the cookie as absent while another request's priming
\* is under way issues a priming GET of its own, exactly one; the settling of
\* one priming leaves the other under way; each request attaches the header
\* iff the cookie is present when it reads it again.
C31_UncoordinatedPriming ==
  [][\A i \in Slots : \A j \in Slots \ {i} :
       /\ \A verb \in Mutating :
            (Priming(calls[j]) /\ ~Truthy(csrfCookie) /\ CallStart(i, verb))
              => /\ Priming(calls'[i]) /\ calls'[i].req.primes = 1
                 /\ calls'[j] = calls[j]
       /\ \A cookie \in CsrfValues \cup {Undefined} :
            (Priming(calls[j]) /\ CallCsrfSettled(i, cookie))
              => /\ calls'[j] = calls[j]
                 /\ calls'[i].req.stage = "sent" /\ calls'[i].req.primes = 1
                 /\ HasHeader(calls'[i].req, CsrfHeaderName) <=> Truthy(csrfCookie')
                 /\ Truthy(csrfCookie')
                      => calls'[i].req.headers[CsrfHeaderName] = csrfCookie'.s]_vars

\* Two requests primed on their own: the first read the cookie again before
\* it was there and goes without the header, the second carries it.
C31_Witness ==
  \E i \in Slots : \E j \in Slots \ {i} :
    /\ calls[i].pc = "flight" /\ calls[j].pc = "flight"
    /\ calls[i].req.stage = "sent" /\ calls[j].req.stage = "sent"
    /\ calls[i].req.primes = 1 /\ calls[j].req.primes = 1
    /\ ~HasHeader(calls[i].req, CsrfHeaderName)
    /\ HasHeader(calls[j].req, CsrfHeaderName)

\* C32: the ready-made guards raise a 403 only for an unauthenticated
\* visitor of the auth guard when no login path is configured: an
\* authenticated visitor is never answered with a 403 by either guard, and
\* with postLogin disabled the guest guard does not redirect and lets the
\* navigation through.
C32_ForbiddenOnlyWhenAnonymous ==
  [][\A to \in ToRoutes :
       /\ AuthGuard(to) =>
            (returned'.value = Forbidden
               <=> (~isLoggedIn /\ options.redirect.login = Disabled))
       /\ GuestGuard(to) =>
            /\ returned'.value # Forbidden
            /\ isLoggedIn /\ options.redirect.postLogin = Disabled
                 /\ ~(options.redirect.intendedEnabled /\ to.redirect # ""
                        /\ to.redirect # to.path)
                 => returned'.value = Passed]_vars

\* C33: whenever login() from the anonymous state makes its default
\* post-login navigation, the user is authenticated at that moment: it never
\* navigates to the post-login destination while isLoggedIn is false.
C33_NavigatesOnlyWhenLoggedIn ==
  [][(/\ auth'.op = "login" /\ auth.pc # "done" /\ auth'.pc = "done"
      /\ auth'.out.posts = 1 /\ auth'.out.navs # <<>>)
       => user' # Null]_vars

\* C40: checkGuest never redirects to the route being visited: a non-null
\* redirectTo differs from to.path, also when to.path is the postLogin path.
C40_GuestNeverRedirectsToVisited ==
  [][\A to \in ToRoutes :
       (CheckGuest(to) /\ returned'.value.redirectTo # Null)
         => returned'.value.redirectTo # Str(to.path)]_vars

\* C36: the shared user becomes non-null only by a successful fetch of the
\* user endpoint (refreshUser(), the refresh step of login(), the plugin's
\* initial fetch): a successful login POST, a token write and a failed
\* request never set it.
C36_UserOnlyFromUserFetch ==
  [][/\ (user' # user /\ user' # Null)
          => \E body \in UserBodies :
               /\ UserFetchOk(body)
               /\ user' = extractNestedValue(body, userResponseKey)
     /\ \A body \in LoginBodies : LoginPostOk(body) => user' = user
     /\ \A error \in Errors :
          (AuthPostFail(error) \/ UserFetchFail(error)) => user' \in {user, Null}]_vars

\* A token-mode login has written the token and its user fetch has set the
\* user record.
C36_Witness ==
  /\ auth.op = "login" /\ auth.pc = "done"
  /\ auth.out.sets = 1 /\ auth.out.fetches = 1
  /\ IsRecord(user)

C38_ErrorOutlivesEarlierCalls ==
  [][\A i \in Slots :
       (/\ calls[i].pc = "flight" /\ calls[i].outlived
        /\ \A j \in Slots \ {i} : calls[j].pc = "done" /\ calls[j].err # Undefined
        /\ CallOk(i))
         => errorBag'["http"] = errorBag["http"]]_vars

MethodFields(body) ==
  IF body.t = "form" THEN SelectSeq(body.f, LAMBDA field : field[1] = "_method")
  ELSE <<>>
Credentials(req) ==
  [name \in DOMAIN req.headers \cap {CsrfHeaderName, "Authorization"}
     |-> req.headers[name]]
\* The stored token and the cookie are such that a first run for the request
\* would attach what the request carries.
SameSurroundings(req) ==
  LET now == prepareContext(req.method, req.endpoint, tokenStorage, csrfCookie)
  IN now.stage = "sent" /\ now.headers = req.headers

\* C37: request preparation is idempotent on a context: a second run of
\* onRequest on the context it has prepared, as made by a retry, leaves the
\* transport method, the _method fields of a multipart body and the
\* credential headers as they were after the first run.
C37_PreparationIdempotent ==
  [][\A i \in Slots :
       (calls[i].pc = "flight" /\ SameSurroundings(calls[i].req) /\ CallRetry(i))
         => /\ calls'[i].req.sent = calls[i].req.sent
            /\ MethodFields(calls'[i].req.body) = MethodFields(calls[i].req.body)
            /\ calls'[i].req.stage = "sent"
            /\ Credentials(calls'[i].req) = Credentials(calls[i].req)]_vars

\* C34: logout() is final with respect to earlier requests: once it has
\* completed and set user to null, the late response of a user fetch that was
\* started before it completed does not set user back to a non-null record.
\* (An overlapping invocation starts only while auth is under way: one still
\* awaiting its response when auth is a completed logout started before.)
C34_LogoutIsFinal ==
  [][\A body \in UserBodies :
       (/\ auth.op = "logout" /\ auth.pc = "done"
        /\ auth.out.posts = 1 /\ auth.out.err = Undefined
        /\ user = Null
        /\ OverlapUserFetchOk(body))
         => ~IsRecord(user')]_vars

\* C35: if login() is invoked twice from the anonymous state and the second
\* invocation starts before the first has finished, at most one POST to the
\* login endpoint is issued.
C35_OneLoginPost ==
  [][\A cb \in BOOLEAN :
       (/\ auth.op = "login" /\ auth.pc # "done" /\ auth.out.posts = 1
        /\ OverlapLoginStart(cb))
         => auth.out.posts + overlap'.out.posts <= 1]_vars

====
